---- MODULE Spec2Model ----
(***************************************************************************)
(* Model of packages/geogebra-optimizer/python/optimizer.py: the ask /     *)
(* evaluate / tell coordination layer around cma.CMAEvolutionStrategy and  *)
(* cma.ConstrainedFitnessAL.  Reals are modelled by small integers.  The   *)
(* module-level globals _current_objective, _current_constraints and cfun  *)
(* are state variables; the pair (es, cfun) returned by                    *)
(* initialize_optimizer is kept by the caller in a handle slot.            *)
(*                                                                         *)
(* The cma objects are modelled by what optimizer.py calls on them:        *)
(*   the constructor raises on no well-formed configuration;               *)
(*   es.ask() returns a sample repaired into the bounds and checks nothing *)
(*   else; es.stop() is the set of stopping criteria that hold;            *)
(*   es.tell(X, f) ranks by                                                *)
(*   ascending f, moves the mean and counts one generation, whatever X is; *)
(*   cfun(x) calls the two wrappers, appends their values to cfun.G and    *)
(*   cfun.F, keeps cfun.best_feas (only feasible evaluations, only a       *)
(*   strictly lower objective) and returns the augmented-Lagrangian value, *)
(*   or, with find_feasible_first and no feasible point seen yet, the      *)
(*   violation alone;                                                      *)
(*   cfun.update(es) adapts the multipliers from the best-ranked stored    *)
(*   evaluation and empties cfun.G and cfun.F.                             *)
(***************************************************************************)
EXTENDS Integers, Sequences, FiniteSets, TLC

\* ---------------------------------------------------------------- bounds
MaxIter    == 2      \* es.tell calls per strategy (generation counter cap)
MaxBatch   == 2      \* records per evaluate_batch call

\* ---------------------------------------------------------- value domains
Populations == {<<<<0>>, <<1>>>>, <<<<1>>, <<1>>>>}
Records    == {[solution |-> <<0>>, objective |-> 2, alConstraints |-> <<0, 0>>],
               [solution |-> <<1>>, objective |-> 1, alConstraints |-> <<0, 0>>],
               [solution |-> <<0>>, objective |-> 1, alConstraints |-> <<0, 1>>]}
Batches    == UNION {[1..n -> Records] : n \in 0..MaxBatch}
ShortBatches == UNION {[1..n -> {r \in Records : r.solution = <<0>>}] : n \in 0..1}
Rankings   == {<<1, 2>>, <<2, 1>>}
InitialGuesses == {<<0>>}
BoundsMin  == {<<0>>}
BoundsMax  == {<<1>>}
LooseBoundsMin == {<<0>>, <<2>>, <<0, 0>>}
Samples    == Populations \cup {<<<<2>>, <<1>>>>}
OnePopulation == {<<<<0>>, <<1>>>>}
OneRanking == {<<2, 1>>}

Handles    == {1, 2}
None       == <<>>

VARIABLES
    es,        \* es[h]: the CMAEvolutionStrategy the caller keeps in slot h
    hc,        \* hc[h]: the ConstrainedFitnessAL kept in slot h (present = FALSE: None)
    cfun,      \* module global cfun: 0 is None, else the handle whose handler it is
    cur_obj,   \* module global _current_objective (None or <<value>>)
    cur_cons,  \* module global _current_constraints
    mode,      \* has_constraints argument of the most recent initialize_optimizer
    last,      \* the most recent call and what it returned
    srv        \* the export server: its last request, its response, the files on disk

vars == <<es, hc, cfun, cur_obj, cur_cons, mode, last, srv>>

\* ------------------------------------------------------------ arithmetic
Max(a, b) == IF a >= b THEN a ELSE b

RECURSIVE SumSeq(_)
SumSeq(s) == IF Len(s) = 0 THEN 0 ELSE Head(s) + SumSeq(Tail(s))

\* ------------------------------------------------- cma library, as called
InitMu == 2

NoES == [live |-> FALSE, countiter |-> 0, mean |-> <<0>>, asked |-> None, inflight |-> FALSE,
         N |-> 1, lo |-> <<0>>, hi |-> <<0>>, maxiter |-> 0]

NoCF == [present |-> FALSE, gen |-> None, best_feas |-> None,
         finding_feasible |-> FALSE, lam |-> <<0, 0>>, mu |-> InitMu]

\* the configurations cma.CMAEvolutionStrategy is specified for: one lower and one
\* upper bound per component of initial_guess, lower <= upper
WellFormed(x0, lo, hi) ==
    /\ Len(x0) = Len(lo)
    /\ Len(lo) = Len(hi)
    /\ \A i \in DOMAIN lo : lo[i] <= hi[i]

\* whether the constructor raises: never on a well-formed configuration; on any other
\* it raises an exception of its own or accepts the arguments as they are
CmaRaises(x0, lo, hi) == IF WellFormed(x0, lo, hi) THEN {FALSE} ELSE BOOLEAN

\* cma.CMAEvolutionStrategy(initial_guess, sigma, opts), opts = bounds, maxiter, ...
NewES(x0, lo, hi, maxiter) ==
    [live |-> TRUE, countiter |-> 0, mean |-> x0, asked |-> None, inflight |-> FALSE,
     N |-> Len(x0), lo |-> lo, hi |-> hi, maxiter |-> maxiter]

\* cma.ConstrainedFitnessAL(objective_wrapper, constraints_wrapper, find_feasible_first=True)
NewCF == [present |-> TRUE, gen |-> None, best_feas |-> None,
          finding_feasible |-> TRUE, lam |-> <<0, 0>>, mu |-> InitMu]

\* all(g <= 0 for g in last_constraints)
AllLE0(g) == \A i \in DOMAIN g : g[i] <= 0

\* augmented-Lagrangian penalty of a constraint vector under (lam, mu)
ALPenalty(cf, g) ==
    SumSeq([i \in DOMAIN g |->
              cf.lam[i] * g[i] + (cf.mu \div 2) * Max(0, g[i]) * Max(0, g[i])])

\* ranking value while the handler is still searching a feasible point
Aggregate(g) == SumSeq([i \in DOMAIN g |-> Max(0, g[i]) * Max(0, g[i])])

\* objective_wrapper(x) / constraints_wrapper(x): the stored globals, whatever x is
objective_wrapper(o, x) == o[1]
constraints_wrapper(c, x) == c

\* value returned by cfun(x) when the wrappers see (o, c)
CfunValue(cf, x, o, c) ==
    IF cf.finding_feasible
        THEN Aggregate(constraints_wrapper(c, x))
        ELSE objective_wrapper(o, x) + ALPenalty(cf, constraints_wrapper(c, x))

BestUpdateAlways(best, f, x) == <<[x |-> x, f |-> f]>>

\* BestSolution2.update(f, x): keep the strictly better one
BestUpdate(best, f, x) ==
    IF best = None \/ f < best[1].f THEN <<[x |-> x, f |-> f]>> ELSE best

\* the F and G lists of a handler since its last update, kept as what is read from
\* them: the last entry of G, the best-ranked entry, and whether any entry is feasible
GenAppend(gen, g, fit) ==
    IF gen = None
        THEN <<[last_g |-> g, best_fit |-> fit, best_g |-> g, anyfeas |-> AllLE0(g)]>>
        ELSE <<[last_g   |-> g,
                best_fit |-> IF fit < gen[1].best_fit THEN fit ELSE gen[1].best_fit,
                best_g   |-> IF fit < gen[1].best_fit THEN g ELSE gen[1].best_g,
                anyfeas  |-> gen[1].anyfeas \/ AllLE0(g)]>>

\* handler after cfun(x): G and F get one more entry, best_feas is maintained
CfunCall(cf, x, o, c) ==
    LET g == constraints_wrapper(c, x)
    IN [cf EXCEPT !.gen = GenAppend(@, g, CfunValue(cf, x, o, c)),
                  !.best_feas = IF ~cf.finding_feasible /\ AllLE0(g)
                                   THEN BestUpdate(@, objective_wrapper(o, x), x)
                                   ELSE @]

CfunUpdateDescent(cf) ==
    IF cf.gen = None THEN cf
    ELSE IF cf.finding_feasible
        THEN [cf EXCEPT !.finding_feasible = ~cf.gen[1].anyfeas, !.gen = None]
        ELSE [cf EXCEPT !.lam = [i \in DOMAIN @ |-> @[i] - cf.mu * cf.gen[1].best_g[i]],
                        !.gen = None]

\* cfun.update(es): once per generation, from the entries stored since the last update
CfunUpdate(cf) ==
    IF cf.gen = None THEN cf
    ELSE IF cf.finding_feasible
        THEN [cf EXCEPT !.finding_feasible = ~cf.gen[1].anyfeas, !.gen = None]
        ELSE [cf EXCEPT !.lam = [i \in DOMAIN @ |-> Max(0, @[i] + cf.mu * cf.gen[1].best_g[i])],
                        !.gen = None]

\* es.tell(solutions, fitnesses): rank ascending, move the mean, count the generation
ArgMin(fits) ==
    CHOOSE i \in 1..Len(fits) :
        /\ \A k \in 1..Len(fits) : fits[i] <= fits[k]
        /\ \A k \in 1..(i - 1) : fits[k] > fits[i]

ESTell(e, sols, fits) ==
    [e EXCEPT !.countiter = @ + 1, !.mean = sols[ArgMin(fits)], !.inflight = FALSE]

\* the bound of component k (a shorter bound list is continued by its last entry)
Bound(b, k) == b[IF k <= Len(b) THEN k ELSE Len(b)]

\* the boundary handler of the 'bounds' option: a sampled vector is brought into
\* [lo, hi] component by component
Repair(x, lo, hi) ==
    [k \in DOMAIN x |-> IF x[k] < Bound(lo, k) THEN Bound(lo, k)
                        ELSE IF x[k] > Bound(hi, k) THEN Bound(hi, k)
                        ELSE x[k]]

ESAskUnrepaired(e, pop) == [e EXCEPT !.asked = pop, !.inflight = TRUE]

\* es.ask(): a fresh sample, repaired into the bounds; nothing is checked against
\* earlier samples
ESAsk(e, pop) ==
    [e EXCEPT !.asked = [i \in DOMAIN pop |-> Repair(pop[i], e.lo, e.hi)],
              !.inflight = TRUE]

\* es.stop(): the termination criteria that hold (the iteration budget is the only
\* one that integer fitness values can trigger)
ESStop(e) == IF e.countiter >= e.maxiter THEN {"maxiter"} ELSE {}

\* str(d) of a dict, as the sequence of its tokens: the braces and the keys between
StrDict(d) ==
    <<"{">> \o (IF d = {} THEN <<>> ELSE <<CHOOSE k \in d : TRUE>>) \o <<"}">>

\* ---------------------------------------------------------- optimizer.py
NoLast == [op |-> "none", h |-> 0, err |-> "none", batch |-> <<>>,
           fitnesses |-> <<>>, feasibilities |-> <<>>, metrics |-> None,
           best |-> None, matched |-> TRUE, repeated |-> FALSE,
           args |-> <<>>, out |-> None, again |-> FALSE]

is_feasible_any(cf) ==
    IF cf.gen = None THEN FALSE ELSE \E i \in DOMAIN cf.gen[1].last_g : cf.gen[1].last_g[i] <= 0

\* is_feasible(cfun)
is_feasible(cf) ==
    IF cf.gen = None THEN FALSE ELSE AllLE0(cf.gen[1].last_g)

\* get_best_feasible(cfun)
get_best_feasible(cf) ==
    IF ~cf.present THEN None
    ELSE IF cf.best_feas = None THEN None
    ELSE <<[solution |-> cf.best_feas[1].x, objective |-> cf.best_feas[1].f, feasible |-> TRUE]>>

\* check_convergence(es)
check_convergence(e) == StrDict(ESStop(e))

\* ------------------------------------------------------------- server.py
\* the export server before its first request
NoRequest == [op |-> "none", format |-> "", outputFormat |-> "", optimize |-> FALSE,
              status |-> 0, converted |-> FALSE, fail |-> "none",
              left |-> {}, disk |-> {}]

Init ==
    /\ es = [h \in Handles |-> NoES]
    /\ hc = [h \in Handles |-> NoCF]
    /\ cfun = 0
    /\ cur_obj = None
    /\ cur_cons = <<>>
    /\ mode = TRUE
    /\ last = NoLast
    /\ srv = NoRequest

initialize_keeps_handler(h, x0, bounds_min, bounds_max, maxiter, has_constraints) ==
    /\ h \in Handles
    /\ \E raised \in CmaRaises(x0, bounds_min, bounds_max) :
         IF raised
            THEN /\ last' = [NoLast EXCEPT !.op = "init", !.h = h, !.err = "cma",
                                           !.args = <<x0, bounds_min, bounds_max>>]
                 /\ UNCHANGED <<es, hc, cfun, cur_obj, cur_cons, mode, srv>>
            ELSE /\ es' = [es EXCEPT ![h] = NewES(x0, bounds_min, bounds_max, maxiter)]
                 /\ IF ~has_constraints
                       THEN /\ cfun' = cfun
                            /\ hc' = hc
                       ELSE /\ cfun' = h
                            /\ hc' = [hc EXCEPT ![h] = NewCF]
                 /\ mode' = has_constraints
                 /\ last' = [NoLast EXCEPT !.op = "init", !.h = h,
                                           !.args = <<x0, bounds_min, bounds_max>>]
                 /\ UNCHANGED <<cur_obj, cur_cons, srv>>

\* initialize_optimizer(initial_guess, bounds_min, bounds_max, sigma, maxiter, popsize,
\* tolfun, has_constraints); the caller keeps the returned pair (es, cfun) in slot h.
\* The constructor call comes first: when it raises, nothing has been assigned.
initialize_optimizer(h, x0, bounds_min, bounds_max, maxiter, has_constraints) ==
    /\ h \in Handles
    /\ \E raised \in CmaRaises(x0, bounds_min, bounds_max) :
         IF raised
            THEN /\ last' = [NoLast EXCEPT !.op = "init", !.h = h, !.err = "cma",
                                           !.args = <<x0, bounds_min, bounds_max>>]
                 /\ UNCHANGED <<es, hc, cfun, cur_obj, cur_cons, mode, srv>>
            ELSE /\ es' = [es EXCEPT ![h] = NewES(x0, bounds_min, bounds_max, maxiter)]
                 /\ IF ~has_constraints
                       THEN /\ cfun' = 0
                            /\ hc' = [hc EXCEPT ![h] = NoCF]
                       ELSE /\ cfun' = h
                            /\ hc' = [hc EXCEPT ![h] = NewCF]
                 /\ mode' = has_constraints
                 /\ last' = [NoLast EXCEPT !.op = "init", !.h = h,
                                           !.args = <<x0, bounds_min, bounds_max>>]
                 /\ UNCHANGED <<cur_obj, cur_cons, srv>>

\* ask_solutions(es)
ask_solutions(h, pop) ==
    /\ es[h].live
    /\ es' = [es EXCEPT ![h] = ESAsk(@, pop)]
    /\ last' = [NoLast EXCEPT !.op = "ask", !.h = h, !.repeated = es[h].inflight,
                              !.args = <<pop>>, !.out = ESAsk(es[h], pop).asked]
    /\ UNCHANGED <<hc, cfun, cur_obj, cur_cons, mode, srv>>

\* tell_results(es, solutions, fitnesses, cfun)
tell_results(h, sols, fits) ==
    /\ es[h].live
    /\ es[h].countiter < MaxIter
    /\ es' = [es EXCEPT ![h] = ESTell(@, sols, fits)]
    /\ hc' = [hc EXCEPT ![h] = IF @.present THEN CfunUpdate(@) ELSE @]
    /\ last' = [NoLast EXCEPT !.op = "tell", !.h = h,
                              !.matched = (sols = es[h].asked),
                              !.repeated = (es[h].asked # None /\ es[h].countiter > 0
                                             /\ ~es[h].inflight)]
    /\ UNCHANGED <<cfun, cur_obj, cur_cons, mode, srv>>

MetricsOfBest(cf, last_solution, o, c) ==
    IF cf.gen = None THEN None
    ELSE LET last_constraints == cf.gen[1].best_g
             true_al_fitness  == cf.gen[1].best_fit
             violations       == [i \in DOMAIN last_constraints |-> Max(0, last_constraints[i])]
         IN <<[alFitness     |-> true_al_fitness,
               alPenalty     |-> true_al_fitness - o[1],
               hardViolation |-> IF Len(violations) = 0 THEN 0
                                 ELSE CHOOSE m \in {violations[i] : i \in DOMAIN violations} :
                                        \A i \in DOMAIN violations : violations[i] <= m,
               meanViolation |-> IF Len(violations) = 0 THEN 0
                                 ELSE SumSeq(violations) \div Len(violations),
               isFeasible    |-> AllLE0(last_constraints),
               constraints   |-> last_constraints]>>

\* get_cmaes_metrics(cfun, last_solution): the metrics and the handler afterwards
MetricsOf(cf, last_solution, o, c) ==
    IF cf.gen = None THEN None
    ELSE LET last_constraints == cf.gen[1].last_g
             true_al_fitness  == CfunValue(cf, last_solution, o, c)
             violations       == [i \in DOMAIN last_constraints |-> Max(0, last_constraints[i])]
         IN <<[alFitness     |-> true_al_fitness,
               alPenalty     |-> true_al_fitness - o[1],
               hardViolation |-> IF Len(violations) = 0 THEN 0
                                 ELSE CHOOSE m \in {violations[i] : i \in DOMAIN violations} :
                                        \A i \in DOMAIN violations : violations[i] <= m,
               meanViolation |-> IF Len(violations) = 0 THEN 0
                                 ELSE SumSeq(violations) \div Len(violations),
               isFeasible    |-> AllLE0(last_constraints),
               constraints   |-> last_constraints]>>

get_cmaes_metrics(cf, last_solution, o, c) ==
    IF cf.gen = None THEN cf ELSE CfunCall(cf, last_solution, o, c)

EvalRecordPrepend(st, eval_data) ==
    LET solution == eval_data.solution
        o == <<eval_data.objective>>
        c == eval_data.alConstraints
        cf2 == CfunCall(st.cf, solution, o, c)
    IN [cf            |-> IF st.none THEN st.cf ELSE cf2,
        none          |-> st.none,
        cur_obj       |-> o,
        cur_cons      |-> c,
        fitnesses     |-> <<IF st.none THEN o[1] ELSE CfunValue(st.cf, solution, o, c)>>
                             \o st.fitnesses,
        feasibilities |-> <<IF st.none THEN TRUE ELSE is_feasible(cf2)>> \o st.feasibilities,
        last_solution |-> <<solution>>]

EvalRecordStale(st, eval_data) ==
    LET solution == eval_data.solution
        o == <<eval_data.objective>>
        c == eval_data.alConstraints
        seen_o == IF st.cur_obj = None THEN o ELSE st.cur_obj
        seen_c == IF st.cur_cons = <<>> THEN c ELSE st.cur_cons
        cf2 == CfunCall(st.cf, solution, seen_o, seen_c)
    IN [cf            |-> IF st.none THEN st.cf ELSE cf2,
        none          |-> st.none,
        cur_obj       |-> o,
        cur_cons      |-> c,
        fitnesses     |-> Append(st.fitnesses,
                                 IF st.none THEN o[1]
                                 ELSE CfunValue(st.cf, solution, seen_o, seen_c)),
        feasibilities |-> Append(st.feasibilities,
                                 IF st.none THEN TRUE ELSE is_feasible(cf2)),
        last_solution |-> <<solution>>]

EvalRecordUpdates(st, eval_data) ==
    LET solution == eval_data.solution
        o == <<eval_data.objective>>
        c == eval_data.alConstraints
        cf2 == CfunCall(st.cf, solution, o, c)
    IN [cf            |-> IF st.none THEN st.cf ELSE CfunUpdate(cf2),
        none          |-> st.none,
        cur_obj       |-> o,
        cur_cons      |-> c,
        fitnesses     |-> Append(st.fitnesses,
                                 IF st.none THEN o[1] ELSE CfunValue(st.cf, solution, o, c)),
        feasibilities |-> Append(st.feasibilities,
                                 IF st.none THEN TRUE ELSE is_feasible(cf2)),
        last_solution |-> <<solution>>]

\* body of the for loop of evaluate_batch, applied to one record
EvalRecord(st, eval_data) ==
    LET solution == eval_data.solution
        o == <<eval_data.objective>>
        c == eval_data.alConstraints
        cf2 == CfunCall(st.cf, solution, o, c)
    IN [cf            |-> IF st.none THEN st.cf ELSE cf2,
        none          |-> st.none,
        cur_obj       |-> o,
        cur_cons      |-> c,
        fitnesses     |-> Append(st.fitnesses,
                                 IF st.none THEN o[1] ELSE CfunValue(st.cf, solution, o, c)),
        feasibilities |-> Append(st.feasibilities,
                                 IF st.none THEN TRUE ELSE is_feasible(cf2)),
        last_solution |-> <<solution>>]

RECURSIVE EvalLoop(_, _)
EvalLoop(st, evaluations) ==
    IF Len(evaluations) = 0 THEN st
    ELSE EvalLoop(EvalRecord(st, Head(evaluations)), Tail(evaluations))

EvalScoredClears(evaluations) ==
    EvalLoop([cf |-> IF cfun = 0 THEN NoCF ELSE hc[cfun], none |-> (cfun = 0),
              cur_obj |-> None, cur_cons |-> <<>>,
              fitnesses |-> <<>>, feasibilities |-> <<>>, last_solution |-> None],
             evaluations)

\* state of evaluate_batch when its loop is over
EvalScored(evaluations) ==
    EvalLoop([cf |-> IF cfun = 0 THEN NoCF ELSE hc[cfun], none |-> (cfun = 0),
              cur_obj |-> cur_obj, cur_cons |-> cur_cons,
              fitnesses |-> <<>>, feasibilities |-> <<>>, last_solution |-> None],
             evaluations)

\* whether evaluate_batch goes on to get_cmaes_metrics
WantsMetrics(st) == st.last_solution # None /\ ~st.none

evaluate_batch_updates(evaluations) ==
    \E st \in {EvalScored(evaluations)} :
       /\ \E h \in Handles : es[h].live
       /\ cur_obj' = st.cur_obj
       /\ cur_cons' = st.cur_cons
       /\ hc' = IF cfun = 0 THEN hc
                ELSE [hc EXCEPT ![cfun] =
                        CfunUpdate(IF WantsMetrics(st)
                           THEN get_cmaes_metrics(st.cf, st.last_solution[1], st.cur_obj, st.cur_cons)
                           ELSE st.cf)]
       /\ last' = [NoLast EXCEPT
                     !.op = "eval", !.batch = evaluations,
                     !.fitnesses = st.fitnesses,
                     !.feasibilities = st.feasibilities,
                     !.metrics = IF WantsMetrics(st)
                                    THEN MetricsOf(st.cf, st.last_solution[1], st.cur_obj, st.cur_cons)
                                    ELSE None,
                     !.repeated = (last.op = "eval" /\ last.batch # <<>>
                                                      /\ evaluations # <<>>),
                     !.again = (last.op = "eval" /\ last.batch = evaluations
                                                   /\ evaluations # <<>>)]
       /\ UNCHANGED <<es, cfun, mode, srv>>

\* evaluate_batch(evaluations)
evaluate_batch(evaluations) ==
    \E st \in {EvalScored(evaluations)} :
       /\ \E h \in Handles : es[h].live
       /\ cur_obj' = st.cur_obj
       /\ cur_cons' = st.cur_cons
       /\ hc' = IF cfun = 0 THEN hc
                ELSE [hc EXCEPT ![cfun] =
                        IF WantsMetrics(st)
                           THEN get_cmaes_metrics(st.cf, st.last_solution[1], st.cur_obj, st.cur_cons)
                           ELSE st.cf]
       /\ last' = [NoLast EXCEPT
                     !.op = "eval", !.batch = evaluations,
                     !.fitnesses = st.fitnesses,
                     !.feasibilities = st.feasibilities,
                     !.metrics = IF WantsMetrics(st)
                                    THEN MetricsOf(st.cf, st.last_solution[1], st.cur_obj, st.cur_cons)
                                    ELSE None,
                     !.repeated = (last.op = "eval" /\ last.batch # <<>>
                                                      /\ evaluations # <<>>),
                     !.again = (last.op = "eval" /\ last.batch = evaluations
                                                   /\ evaluations # <<>>)]
       /\ UNCHANGED <<es, cfun, mode, srv>>

GetBestFeasibleTakes(h) ==
    /\ es[h].live
    /\ hc' = [hc EXCEPT ![h].best_feas = None]
    /\ last' = [NoLast EXCEPT !.op = "best", !.h = h, !.best = get_best_feasible(hc[h])]
    /\ UNCHANGED <<es, cfun, cur_obj, cur_cons, mode, srv>>

\* a call get_best_feasible(cfun) on the pair kept in slot h
GetBestFeasible(h) ==
    /\ es[h].live
    /\ last' = [NoLast EXCEPT !.op = "best", !.h = h, !.best = get_best_feasible(hc[h])]
    /\ UNCHANGED <<es, hc, cfun, cur_obj, cur_cons, mode, srv>>

\* a call is_feasible(cfun) on the pair kept in slot h
IsFeasible(h) ==
    /\ es[h].live
    /\ last' = [NoLast EXCEPT !.op = "feasible", !.h = h, !.out = <<is_feasible(hc[h])>>]
    /\ UNCHANGED <<es, hc, cfun, cur_obj, cur_cons, mode, srv>>

\* a call get_cmaes_metrics(cfun, last_solution) on the pair kept in slot h: the
\* handler is called once more, its wrappers read the globals
GetCmaesMetrics(h, last_solution) ==
    /\ es[h].live
    /\ hc' = [hc EXCEPT ![h] = get_cmaes_metrics(@, last_solution, cur_obj, cur_cons)]
    /\ last' = [NoLast EXCEPT !.op = "metrics", !.h = h,
                              !.metrics = MetricsOf(hc[h], last_solution, cur_obj, cur_cons)]
    /\ UNCHANGED <<es, cfun, cur_obj, cur_cons, mode, srv>>

\* a call check_convergence(es) on the pair kept in slot h
CheckConvergence(h) ==
    /\ es[h].live
    /\ last' = [NoLast EXCEPT !.op = "stop", !.h = h, !.out = check_convergence(es[h])]
    /\ UNCHANGED <<es, hc, cfun, cur_obj, cur_cons, mode, srv>>

\* ------------------------------------------------- server.py, operations
\* request.format and request.outputFormat as clients send them
Formats == {"svg", "SVG", "png", "PNG", "json", "bmp"}
OutputFormats == {"dxf", "DXF", "pdf"}

\* str.lower() on the strings above
Lower(s) ==
    CASE s = "SVG" -> "svg"
      [] s = "PNG" -> "png"
      [] s = "DXF" -> "dxf"
      [] OTHER -> s

\* the step of convert_svg_to_dxf that raises, if any: creating or writing the
\* temporary SVG, the vpype run (before or after it wrote its output), reading the
\* SVG, creating the temporary DXF, saving the DXF
Failures == {"none", "svg_create", "svg_write", "vpype", "vpype_late", "read",
             "dxf_create", "save"}

\* the finally block: unlink the temporary SVG, and the optimized SVG if it exists
Finally(files, optimize) ==
    (files \ {"tmp.svg"}) \ (IF optimize THEN {"tmp_optimized.svg"} ELSE {})

\* convert_svg_to_dxf(svg_content, options): the response status and the temporary
\* files of this call still on disk when it is over. Every exception, the
\* HTTPException of a failed vpype run included, ends in the outer except as a 500.
convert_svg_to_dxf(optimize, fail) ==
    LET svg_made   == IF fail = "svg_create" THEN {} ELSE {"tmp.svg"}
        optimized  == svg_made \cup (IF optimize /\ fail # "vpype"
                                        THEN {"tmp_optimized.svg"} ELSE {})
        dxf_made   == optimized \cup (IF fail \in {"none", "save"}
                                         THEN {"tmp.dxf"} ELSE {})
        dxf_unlink == IF fail = "none" THEN dxf_made \ {"tmp.dxf"} ELSE dxf_made
    IN IF fail \in {"svg_create", "svg_write"}
          THEN [status |-> 500, left |-> svg_made]
          ELSE [status |-> IF fail = "none" THEN 200 ELSE 500,
                left   |-> Finally(dxf_unlink, optimize)]

process_export_routes_all(format, outputFormat, optimize, fail) ==
    /\ fail \in {"vpype", "vpype_late"} => optimize
    /\ srv' =
         IF Lower(format) \notin {"svg", "png", "json"} \/ Lower(outputFormat) \notin {"dxf"}
            THEN [NoRequest EXCEPT !.op = "process", !.format = format,
                                   !.outputFormat = outputFormat, !.optimize = optimize,
                                   !.status = 400, !.disk = srv.disk]
            ELSE LET r == convert_svg_to_dxf(optimize, fail)
                 IN [NoRequest EXCEPT !.op = "process", !.format = format,
                                      !.outputFormat = outputFormat, !.optimize = optimize,
                                      !.status = r.status, !.converted = TRUE,
                                      !.fail = fail, !.left = r.left,
                                      !.disk = srv.disk \cup r.left]
    /\ UNCHANGED <<es, hc, cfun, cur_obj, cur_cons, mode, last>>

\* process_export(request), POST /api/process, with the conversion it awaits
process_export(format, outputFormat, optimize, fail) ==
    /\ fail \in {"vpype", "vpype_late"} => optimize
    /\ srv' =
         IF Lower(format) \notin {"svg", "png", "json"}
            THEN [NoRequest EXCEPT !.op = "process", !.format = format,
                                   !.outputFormat = outputFormat, !.optimize = optimize,
                                   !.status = 400, !.disk = srv.disk]
         ELSE IF Lower(outputFormat) \notin {"dxf"}
            THEN [NoRequest EXCEPT !.op = "process", !.format = format,
                                   !.outputFormat = outputFormat, !.optimize = optimize,
                                   !.status = 400, !.disk = srv.disk]
         ELSE IF Lower(format) = "svg" /\ Lower(outputFormat) = "dxf"
            THEN LET r == convert_svg_to_dxf(optimize, fail)
                 IN [NoRequest EXCEPT !.op = "process", !.format = format,
                                      !.outputFormat = outputFormat, !.optimize = optimize,
                                      !.status = r.status, !.converted = TRUE,
                                      !.fail = fail, !.left = r.left,
                                      !.disk = srv.disk \cup r.left]
            ELSE [NoRequest EXCEPT !.op = "process", !.format = format,
                                   !.outputFormat = outputFormat, !.optimize = optimize,
                                   !.status = 501, !.disk = srv.disk]
    /\ UNCHANGED <<es, hc, cfun, cur_obj, cur_cons, mode, last>>

\* root(), GET /
root ==
    /\ srv' = [NoRequest EXCEPT !.op = "root", !.status = 200, !.disk = srv.disk]
    /\ UNCHANGED <<es, hc, cfun, cur_obj, cur_cons, mode, last>>

\* the export server, one request at a time
NextServer ==
    \/ \E format \in Formats, outputFormat \in OutputFormats, optimize \in BOOLEAN,
          fail \in Failures : process_export(format, outputFormat, optimize, fail)
    \/ root

\* one caller, one optimizer at a time (a new initialize_optimizer replaces it)
Next ==
    \/ \E x0 \in InitialGuesses, lo \in BoundsMin, hi \in BoundsMax, hasc \in BOOLEAN :
          initialize_optimizer(1, x0, lo, hi, MaxIter, hasc)
    \/ \E pop \in Samples : ask_solutions(1, pop)
    \/ \E sols \in Populations, fits \in Rankings : tell_results(1, sols, fits)
    \/ \E evaluations \in Batches : evaluate_batch(evaluations)

\* two optimizers kept side by side
NextTwo ==
    \/ \E h \in Handles, x0 \in InitialGuesses, lo \in BoundsMin, hi \in BoundsMax,
          hasc \in BOOLEAN :
          initialize_optimizer(h, x0, lo, hi, MaxIter, hasc)
    \/ \E h \in Handles, pop \in OnePopulation : ask_solutions(h, pop)
    \/ \E h \in Handles, sols \in OnePopulation, fits \in OneRanking :
          tell_results(h, sols, fits)
    \/ \E evaluations \in ShortBatches : evaluate_batch(evaluations)

\* every operation of the module, any caller-supplied bounds
NextCalls ==
    \/ \E x0 \in InitialGuesses, lo \in LooseBoundsMin, hi \in BoundsMax, hasc \in BOOLEAN :
          initialize_optimizer(1, x0, lo, hi, MaxIter, hasc)
    \/ \E pop \in OnePopulation : ask_solutions(1, pop)
    \/ \E sols \in OnePopulation, fits \in OneRanking : tell_results(1, sols, fits)
    \/ \E evaluations \in ShortBatches : evaluate_batch(evaluations)
    \/ GetBestFeasible(1)
    \/ IsFeasible(1)
    \/ \E x \in InitialGuesses : GetCmaesMetrics(1, x)
    \/ CheckConvergence(1)

Spec == Init /\ [][Next]_vars

SpecTwo == Init /\ [][NextTwo]_vars

SpecCalls == Init /\ [][NextCalls]_vars

SpecServer == Init /\ [][NextServer]_vars
\* ------------------------------------------------------------------ claims

\* what evaluate_batch would return for a batch in the current state
EvalOut(evaluations) ==
    LET st == EvalScored(evaluations)
    IN [fitnesses     |-> st.fitnesses,
        feasibilities |-> st.feasibilities,
        metrics       |-> IF WantsMetrics(st)
                             THEN MetricsOf(st.cf, st.last_solution[1], st.cur_obj, st.cur_cons)
                             ELSE None]

\* the score record rec gets from the handler evaluate_batch uses in the current state
ScoreNow(rec) ==
    IF cfun = 0 THEN rec.objective
    ELSE CfunValue(hc[cfun], rec.solution, <<rec.objective>>, rec.alConstraints)

FeasibleRecord(rec) == AllLE0(rec.alConstraints)

\* C1: tell_results with a population different from the one the most recent
\* ask_solutions returned is not accepted: it fails with ProtocolMisuseError.
C1_MismatchRejected ==
    (last.op = "tell" /\ es[last.h].asked # None /\ ~last.matched)
        => last.err = "ProtocolMisuseError"

\* C2: a second tell_results or evaluate_batch without an ask_solutions in between
\* is rejected, so it leaves the strategy, the handler state (multipliers, penalty
\* factor) and the best feasible solution exactly as they were.
C2_RepeatRejectedUnchanged ==
    [][(last'.op \in {"tell", "eval"} /\ last'.repeated)
         => (es' = es /\ hc' = hc)]_vars

\* C3: a second ask_solutions on a handle without a tell_results in between is a
\* misuse error, so at most one population is in flight.
C3_SecondAskRejected ==
    (last.op = "ask" /\ last.repeated) => last.err = "ProtocolMisuseError"

\* C4: an operation on another handle b leaves unchanged what evaluate_batch returns
\* to the caller of a live handle a, for every batch.
C4_HandlesIsolated ==
    [][\A a \in Handles :
          (es[a].live /\ last'.op \in {"init", "ask", "tell"} /\ last'.h # a)
             => \A b \in ShortBatches : EvalOut(b)' = EvalOut(b)]_vars

\* C5: when the optimizer was initialized with has_constraints = false,
\* evaluate_batch returns each record's objective as its fitness whatever the
\* record's constraint vector is, reports every record feasible, and returns no
\* diagnostics.
C5_UnconstrainedIdentity ==
    (last.op = "eval" /\ ~mode) =>
        /\ Len(last.fitnesses) = Len(last.batch)
        /\ Len(last.feasibilities) = Len(last.batch)
        /\ \A i \in 1..Len(last.batch) :
              /\ last.fitnesses[i] = last.batch[i].objective
              /\ last.feasibilities[i] = TRUE
        /\ last.metrics = None

C5_Witness ==
    /\ last.op = "eval" /\ ~mode /\ last.repeated
    /\ Len(last.batch) = 2
    /\ ~FeasibleRecord(last.batch[1])
    /\ last.batch[1].objective # last.batch[2].objective

\* C6: in constrained mode feasibilities[i] is true exactly when every component of
\* record i's own constraint vector is <= 0.
C6_FeasibilityPerRecord ==
    (last.op = "eval" /\ mode) =>
        /\ Len(last.feasibilities) = Len(last.batch)
        /\ \A i \in 1..Len(last.batch) :
              last.feasibilities[i] = FeasibleRecord(last.batch[i])

C6_Witness ==
    /\ last.op = "eval" /\ mode /\ last.repeated
    /\ Len(last.batch) = 2
    /\ last.batch[1].alConstraints = <<0, 1>>
    /\ last.batch[2].alConstraints = <<0, 0>>
    /\ last.feasibilities = <<FALSE, TRUE>>

\* C7: evaluate_batch returns as many fitnesses and feasibilities as there are
\* records, in input order: entry i is the score of record i under the handler state
\* the call started from.
C7_OrderAndLength ==
    [][last'.op = "eval" =>
         /\ Len(last'.fitnesses) = Len(last'.batch)
         /\ Len(last'.feasibilities) = Len(last'.batch)
         /\ \A i \in 1..Len(last'.batch) :
               /\ last'.fitnesses[i] = ScoreNow(last'.batch[i])
               /\ last'.feasibilities[i] = (cfun = 0 \/ FeasibleRecord(last'.batch[i]))]_vars

C7_Witness ==
    /\ last.op = "eval" /\ mode
    /\ Len(last.batch) = 2
    /\ last.fitnesses[1] > last.fitnesses[2]
    /\ last.batch[1].objective < last.batch[2].objective

\* C8: evaluate_batch with an empty list returns empty fitnesses, empty
\* feasibilities and no diagnostics, and changes neither the handler state nor the
\* stored current objective and constraints.
C8_EmptyBatchNoEffect ==
    [][(last'.op = "eval" /\ last'.batch = <<>>) =>
         /\ last'.fitnesses = <<>>
         /\ last'.feasibilities = <<>>
         /\ last'.metrics = None
         /\ hc' = hc
         /\ cur_obj' = cur_obj
         /\ cur_cons' = cur_cons]_vars

C8_Witness ==
    /\ last.op = "eval" /\ last.batch = <<>>
    /\ cfun # 0
    /\ hc[cfun].gen # None
    /\ cur_obj # None

\* C9: while a handle lives, once get_best_feasible is non-null its objective never
\* increases, and every change of it installs the solution and objective of a record
\* of the batch just evaluated whose constraint components are all <= 0.
C9_BestFeasibleMonotone ==
    [][\A h \in Handles :
          last'.op # "init" =>
            /\ get_best_feasible(hc[h]) # None =>
                  /\ get_best_feasible(hc'[h]) # None
                  /\ get_best_feasible(hc'[h])[1].objective <= get_best_feasible(hc[h])[1].objective
            /\ get_best_feasible(hc'[h]) # get_best_feasible(hc[h]) =>
                  /\ last'.op = "eval"
                  /\ \E i \in 1..Len(last'.batch) :
                        /\ FeasibleRecord(last'.batch[i])
                        /\ last'.batch[i].solution = get_best_feasible(hc'[h])[1].solution
                        /\ last'.batch[i].objective = get_best_feasible(hc'[h])[1].objective]_vars

C9_Witness ==
    /\ last.op = "eval" /\ last.repeated
    /\ Len(last.batch) = 2
    /\ FeasibleRecord(last.batch[1]) /\ last.batch[1].objective = 1
    /\ FeasibleRecord(last.batch[2]) /\ last.batch[2].objective = 2
    /\ get_best_feasible(hc[1]) # None
    /\ get_best_feasible(hc[1])[1].objective = 1
    /\ get_best_feasible(hc[1])[1].solution = last.batch[1].solution

\* C10: after evaluate_batch reported a record feasible, get_best_feasible is
\* non-null with an objective <= that record's objective, in constrained and in
\* unconstrained mode.
C10_FeasibleIsRecorded ==
    (last.op = "eval") =>
        \A i \in 1..Len(last.batch) :
            last.feasibilities[i] =>
                /\ get_best_feasible(hc[1]) # None
                /\ get_best_feasible(hc[1])[1].objective <= last.batch[i].objective

\* ALState of a handler: its multipliers and its penalty factor
ALState(cf) == [multipliers |-> cf.lam, penaltyFactor |-> cf.mu]

\* C11: evaluate_batch leaves the ALState of every handler as it was, whatever the
\* batch; ALState changes only in a tell_results on that handle, which counts exactly
\* one generation, happens after records were scored, and uses them up, so that the
\* same records cannot drive a second update.
C11_UpdateOncePerGeneration ==
    [][\A h \in Handles :
          /\ last'.op = "eval" => ALState(hc'[h]) = ALState(hc[h])
          /\ (last'.op # "init" /\ ALState(hc'[h]) # ALState(hc[h])) =>
                /\ last'.op = "tell"
                /\ last'.h = h
                /\ es'[h].countiter = es[h].countiter + 1
                /\ hc[h].gen # None
                /\ hc'[h].gen = None]_vars

C11_Witness ==
    /\ last.op = "tell" /\ last.h = 1
    /\ es[1].countiter = 2
    /\ hc[1].present
    /\ hc[1].lam # <<0, 0>>
    /\ hc[1].gen = None

\* constraint vector of the best-ranked record of a scored batch: the lowest fitness,
\* the earlier record on ties
BestRankedConstraints(batch, fits) == batch[ArgMin(fits)].alConstraints

\* C12: the multiplier update of tell_results uses the constraint vector of the
\* best-ranked record of the generation just evaluated, that is of the batch the
\* preceding evaluate_batch scored, and of no other record.
C12_UpdateFromBestRanked ==
    [][(/\ last'.op = "tell"
        /\ last.op = "eval" /\ last.batch # <<>>
        /\ cfun = last'.h
        /\ hc[last'.h].present /\ ~hc[last'.h].finding_feasible) =>
          hc'[last'.h].lam =
             [i \in DOMAIN hc[last'.h].lam |->
                Max(0, hc[last'.h].lam[i]
                       + hc[last'.h].mu
                         * BestRankedConstraints(last.batch, last.fitnesses)[i])]]_vars

C14_DiagnosticsRepeat ==
    [][(/\ last.op = "eval" /\ last'.op = "eval"
        /\ last'.batch = last.batch
        /\ last.metrics # None) =>
          /\ last'.metrics # None
          /\ last'.metrics[1].alFitness = last.metrics[1].alFitness
          /\ last'.metrics[1].alPenalty = last.metrics[1].alPenalty]_vars

C14_Witness ==
    /\ last.op = "eval" /\ last.again
    /\ Len(last.batch) = 2
    /\ last.metrics # None
    /\ last.metrics[1].alPenalty > 0
    /\ ~hc[cfun].finding_feasible

\* C15: in constrained mode an evaluate_batch of a non-empty batch returns
\* diagnostics of the last record: its constraint vector, the fitness returned for
\* it as alFitness, and alFitness minus its objective as alPenalty.
C15_DiagnosticsOfLastRecord ==
    (last.op = "eval" /\ mode /\ last.batch # <<>>) =>
        /\ last.metrics # None
        /\ last.metrics[1].constraints = last.batch[Len(last.batch)].alConstraints
        /\ last.metrics[1].alFitness = last.fitnesses[Len(last.batch)]
        /\ last.metrics[1].alPenalty
              = last.metrics[1].alFitness - last.batch[Len(last.batch)].objective

C15_Witness ==
    /\ last.op = "eval" /\ mode /\ ~last.again
    /\ Len(last.batch) = 2
    /\ last.batch[1].alConstraints = <<0, 0>>
    /\ last.batch[2].alConstraints = <<0, 1>>
    /\ last.fitnesses[1] < last.fitnesses[2]
    /\ last.metrics # None
    /\ last.metrics[1].alFitness = 2
    /\ last.metrics[1].alPenalty = 1

C17_BadConfigRejected ==
    [][(/\ last'.op = "init"
        /\ ~WellFormed(last'.args[1], last'.args[2], last'.args[3])) =>
          /\ last'.err = "ConfigurationError"
          /\ es' = es
          /\ hc' = hc
          /\ cfun' = cfun]_vars

\* C18: check_convergence reports an empty result as long as no stopping condition
\* holds, and a non-empty one once the strategy has counted maxiter generations, so
\* that a caller looping until the result is non-empty runs at most maxiter
\* generations.
C18_StopsByMaxiter ==
    \A h \in Handles :
        es[h].live =>
            /\ es[h].countiter >= es[h].maxiter => check_convergence(es[h]) # <<>>
            /\ ESStop(es[h]) = {} => check_convergence(es[h]) = <<>>

\* OptimizerState of a strategy: its distribution (the mean stands for it) and its
\* generation counter
OptimizerState(e) == [mean |-> e.mean, countiter |-> e.countiter]

\* C20: on a live handle only tell_results changes OptimizerState: evaluate_batch,
\* get_best_feasible, is_feasible, get_cmaes_metrics, check_convergence (and
\* ask_solutions) leave it as it was, and get_best_feasible and check_convergence
\* change no state of the module, the strategies or the handlers at all.
C20_OnlyTellMutates ==
    [][/\ \A h \in Handles :
             (/\ es[h].live /\ last'.op # "init"
              /\ OptimizerState(es'[h]) # OptimizerState(es[h])) =>
                (last'.op = "tell" /\ last'.h = h)
       /\ last'.op \in {"best", "stop"} =>
             /\ es' = es /\ hc' = hc /\ cfun' = cfun
             /\ cur_obj' = cur_obj /\ cur_cons' = cur_cons]_vars

C20_Witness ==
    /\ last.op = "best" /\ last.h = 1
    /\ last.best # None
    /\ es[1].countiter > 0
    /\ es[1].mean # <<0>>
    /\ hc[1].gen # None

\* the fitness of a record as a function of nothing but the record's objective and
\* constraint vector, an ALState and the find-feasible phase
FitnessOf(al, finding, objective, g) ==
    IF finding
        THEN SumSeq([i \in DOMAIN g |-> Max(0, g[i]) * Max(0, g[i])])
        ELSE objective
             + SumSeq([i \in DOMAIN g |->
                         al.multipliers[i] * g[i]
                         + (al.penaltyFactor \div 2) * Max(0, g[i]) * Max(0, g[i])])

\* C21 as stated: the fitness evaluate_batch returns for a record depends on the
\* record and the current ALState only; so a run whose ALState equals that of a
\* freshly initialized run scores every record as the fresh run does, whatever was
\* evaluated before.
C21_FitnessOfRecordAndALState ==
    \A r \in Records :
        (cfun # 0 /\ ALState(hc[cfun]) = ALState(NewCF)) =>
            ScoreNow(r) = CfunValue(NewCF, r.solution, <<r.objective>>, r.alConstraints)

\* C21 amended: the fitness evaluate_batch returns for a record is a function of the
\* record's objective and constraint vector, the current ALState and the handler's
\* find-feasible phase, whatever records precede it in the batch or were evaluated
\* in earlier batches.
C21_FitnessOfRecordStateAndPhase ==
    (last.op = "eval" /\ cfun # 0) =>
        /\ Len(last.fitnesses) = Len(last.batch)
        /\ \A i \in 1..Len(last.batch) :
              last.fitnesses[i] = FitnessOf(ALState(hc[cfun]), hc[cfun].finding_feasible,
                                            last.batch[i].objective,
                                            last.batch[i].alConstraints)

C21_Witness ==
    /\ last.op = "eval" /\ cfun # 0 /\ last.repeated
    /\ ~hc[cfun].finding_feasible
    /\ hc[cfun].lam # <<0, 0>>
    /\ Len(last.batch) = 2
    /\ last.batch[1].alConstraints # last.batch[2].alConstraints
    /\ last.batch[1].objective # last.batch[2].objective
    /\ last.fitnesses[2] > last.batch[2].objective

\* spellings of the formats, whatever the case
SvgSpellings == {"svg", "SVG"}
SupportedSpellings == {"svg", "SVG", "png", "PNG", "json"}
DxfSpellings == {"dxf", "DXF"}

\* C22: process_export answers 400 without converting when the source format is not
\* svg, png or json or the output format is not dxf (in any case), answers 501
\* without converting for png or json to dxf, and calls convert_svg_to_dxf only for
\* svg to dxf.
C22_RoutesOnlySvgToDxf ==
    srv.op = "process" =>
        /\ (srv.format \notin SupportedSpellings \/ srv.outputFormat \notin DxfSpellings) =>
              (srv.status = 400 /\ ~srv.converted)
        /\ (/\ srv.format \in SupportedSpellings \ SvgSpellings
            /\ srv.outputFormat \in DxfSpellings) =>
              (srv.status = 501 /\ ~srv.converted)
        /\ srv.converted =>
              (srv.format \in SvgSpellings /\ srv.outputFormat \in DxfSpellings)

C22_Witness ==
    /\ srv.op = "process"
    /\ srv.format = "PNG" /\ srv.outputFormat = "DXF"
    /\ srv.status = 501
    /\ ~srv.converted

\* C23: when convert_svg_to_dxf is over, with the DXF response or with a 500 from
\* any step, none of the temporary files it created is left on disk.
C23_NoTempFileLeft ==
    (srv.op = "process" /\ srv.converted) => srv.left = {}

====
